---- MODULE Spec2Model ----
(***************************************************************************)
(* Model of the psychrometric core of src/app.py (RLT-Kostenanalyse):      *)
(* the psychrometric property functions, berechne_luftzustand and the      *)
(* air-treatment pipeline berechne_rlt_prozess.                            *)
(*                                                                         *)
(* Python floats are modelled as decimal floating-point numbers <<m, e>>   *)
(* (value m * 10^e) with an 8-digit mantissa, 10^7 <= |m| < 10^8, or       *)
(* <<0, 0>> for zero.  Every arithmetic operation rounds its result to 8   *)
(* digits, so a conversion is computed, never assumed to be exact.         *)
(***************************************************************************)
EXTENDS Integers, Sequences, FiniteSets, TLC

\* ------------------------------------------------------------------------
\* Floating-point arithmetic (the float type of the source)
\* ------------------------------------------------------------------------

\* Op applied to the values of its arguments: the arguments are evaluated
\* once, before the call, as Python evaluates them.
Eval1(Op(_), a) == CHOOSE r \in {Op(x) : x \in {a}} : TRUE

Eval2(Op(_, _), a, b) == CHOOSE r \in {Op(x, y) : x \in {a}, y \in {b}} : TRUE

Abs(n) == IF n < 0 THEN -n ELSE n

Sgn(n) == IF n < 0 THEN -1 ELSE IF n = 0 THEN 0 ELSE 1

MantLo == 10^7

MantHi == 10^8

\* Number of decimal digits of n >= 1 (n < 2^31).
NDigits(n) ==
    IF n < 10^5
    THEN IF n < 10 THEN 1 ELSE IF n < 100 THEN 2 ELSE IF n < 1000 THEN 3
         ELSE IF n < 10^4 THEN 4 ELSE 5
    ELSE IF n < 10^6 THEN 6 ELSE IF n < 10^7 THEN 7 ELSE IF n < 10^8 THEN 8
         ELSE IF n < 10^9 THEN 9 ELSE 10

\* n / d rounded to the nearest integer, ties to even (n >= 0, 0 < d <= 10^9).
RoundDivV(n, d) ==
    LET q == n \div d
        r == n % d
    IN  IF 2 * r > d \/ (2 * r = d /\ q % 2 = 1) THEN q + 1 ELSE q

RoundDiv(n, d) == Eval2(RoundDivV, n, d)

\* The float nearest to m * 10^e.
NormV(m, e) ==
    IF m = 0 THEN <<0, 0>>
    ELSE LET a == Abs(m)
             d == NDigits(a)
         IN  IF d > 8
             THEN LET q == RoundDiv(a, 10^(d - 8))
                  IN  IF q = MantHi THEN <<Sgn(m) * MantLo, e + d - 7>>
                      ELSE <<Sgn(m) * q, e + d - 8>>
             ELSE <<Sgn(m) * a * 10^(8 - d), e - (8 - d)>>

Norm(m, e) == Eval2(NormV, m, e)

\* A float literal m * 10^e, and an int converted to float.
Lit(m, e) == Norm(m, e)

FromInt(n) == Norm(n, 0)

FNeg(a) == Eval1(LAMBDA x : <<-x[1], x[2]>>, a)

\* a < b
FLtV(a, b) ==
    IF Sgn(a[1]) # Sgn(b[1]) THEN Sgn(a[1]) < Sgn(b[1])
    ELSE IF a[1] = 0 THEN FALSE
    ELSE IF a[1] > 0
         THEN a[2] < b[2] \/ (a[2] = b[2] /\ a[1] < b[1])
         ELSE a[2] > b[2] \/ (a[2] = b[2] /\ a[1] < b[1])

FLt(a, b) == Eval2(FLtV, a, b)

FLe(a, b) == ~FLt(b, a)

FMin(a, b) == Eval2(LAMBDA x, y : IF FLtV(y, x) THEN y ELSE x, a, b)

\* a + b: the smaller operand is aligned to one guard digit below the larger.
FAddV(a, b) ==
    IF a[1] = 0 THEN b
    ELSE IF b[1] = 0 THEN a
    ELSE LET big == IF a[2] >= b[2] THEN a ELSE b
             sml == IF a[2] >= b[2] THEN b ELSE a
             de  == big[2] - sml[2]
         IN  IF de >= 10 THEN big
             ELSE LET s == IF de = 0 THEN Abs(sml[1]) * 10
                           ELSE RoundDiv(Abs(sml[1]), 10^(de - 1))
                  IN  Norm(big[1] * 10 + Sgn(sml[1]) * s, big[2] - 1)

FAdd(a, b) == Eval2(FAddV, a, b)

FSub(a, b) == FAdd(a, FNeg(b))

\* a * b: the 16-digit product of the mantissas, cut to its leading digits.
FMulV(a, b) ==
    IF a[1] = 0 \/ b[1] = 0 THEN <<0, 0>>
    ELSE LET x  == Abs(a[1])
             y  == Abs(b[1])
             xh == x \div 10^4
             xl == x % 10^4
             yh == y \div 10^4
             yl == y % 10^4
             t  == xh * yl + xl * yh + (xl * yl) \div 10^4
             hi == xh * yh + t \div 10^4
             lo == t % 10^4
             s  == Sgn(a[1]) * Sgn(b[1])
         IN  IF hi >= MantLo
             THEN Norm(s * (hi * 10 + lo \div 1000), a[2] + b[2] + 7)
             ELSE Norm(s * (hi * 100 + lo \div 100), a[2] + b[2] + 6)

FMul(a, b) == Eval2(FMulV, a, b)

\* Long division: n further decimal digits of r / d appended to q.
RECURSIVE DivDigits(_, _, _, _)
DivDigits(r, d, q, n) ==
    IF n = 0 THEN q
    ELSE Eval2(LAMBDA r2, q2 : DivDigits(r2, d, q2, n - 1),
               (r * 10) % d, q * 10 + (r * 10) \div d)

\* a / b (b # 0).
FDivV(a, b) ==
    LET x == Abs(a[1])
        y == Abs(b[1])
    IN  IF x = 0 THEN <<0, 0>>
        ELSE Norm(Sgn(a[1]) * Sgn(b[1]) * DivDigits(x % y, y, x \div y, 8),
                  a[2] - b[2] - 8)

FDiv(a, b) == Eval2(FDivV, a, b)

\* round(x * 10^d) as an integer, ties to even: the integer number of
\* 10^-d units that Python's round(x, d) returns.
RoundToV(x, d) ==
    LET k == x[2] + d
    IN  IF x[1] = 0 THEN 0
        ELSE IF k >= 0 THEN x[1] * 10^k
        ELSE IF k < -9 THEN 0
        ELSE Sgn(x[1]) * RoundDiv(Abs(x[1]), 10^(-k))

RoundTo(x, d) == Eval2(RoundToV, x, d)

One == Lit(1, 0)

Two == Lit(2, 0)

Ln2 == Lit(69314718, -8)

Ln10 == Lit(23025851, -7)

Sqrt2 == Lit(14142136, -7)

\* Number of terms of the exponential series and of the logarithm series.
ExpTerms == 11

LogTerms == 6

\* 1 + r/n * (1 + r/(n+1) * (...)): the Taylor series of exp(r) from term n.
RECURSIVE ExpSeries(_, _)
ExpSeries(r, n) ==
    IF n > ExpTerms THEN One
    ELSE FAdd(One, FMul(FDiv(r, FromInt(n)), ExpSeries(r, n + 1)))

\* 2^k * s
Scale2(s, k) ==
    IF k >= 0 THEN FMul(s, FromInt(2^k)) ELSE FDiv(s, FromInt(2^(-k)))

\* np.exp(x): x = k * ln 2 + r with |r| <= ln(2)/2, exp(x) = 2^k * exp(r).
FExpV(x) ==
    Eval1(LAMBDA k : Scale2(Eval2(ExpSeries, FSub(x, FMul(FromInt(k), Ln2)), 1), k),
          RoundTo(FDiv(x, Ln2), 0))

FExp(x) == Eval1(FExpV, x)

\* z + z^3/3 + z^5/5 + ... from the term of odd index n: zn = z^n, z2 = z^2.
RECURSIVE AtanhSeries(_, _, _)
AtanhSeries(zn, z2, n) ==
    IF n > 2 * LogTerms THEN <<0, 0>>
    ELSE FAdd(FDiv(zn, FromInt(n)),
              Eval2(LAMBDA zm, m : AtanhSeries(zm, z2, m), FMul(zn, z2), n + 2))

\* ln u for u in [1/sqrt 2, sqrt 2): 2 * atanh((u - 1) / (u + 1)).
LogReduced(u) ==
    Eval1(LAMBDA z : FMul(Two, Eval2(LAMBDA z1, z2 : AtanhSeries(z1, z2, 1),
                                     z, FMul(z, z))),
          FDiv(FSub(u, One), FAdd(u, One)))

\* The j with y / 2^j in [1/sqrt 2, sqrt 2), for y in [1, 10).
LogShift(y) ==
    IF FLtV(y, Sqrt2) THEN 0
    ELSE IF FLtV(y, FMulV(Two, Sqrt2)) THEN 1
    ELSE IF FLtV(y, FMulV(FromInt(4), Sqrt2)) THEN 2
    ELSE IF FLtV(y, FMulV(FromInt(8), Sqrt2)) THEN 3 ELSE 4

\* np.log(x), x > 0: x = u * 2^j * 10^p with u in [1/sqrt 2, sqrt 2).
FLogV(x) ==
    Eval1(LAMBDA j : FAdd(FAdd(LogReduced(FDiv(<<x[1], -7>>, FromInt(2^j))),
                               FMul(FromInt(j), Ln2)),
                          FMul(FromInt(x[2] + 7), Ln10)),
          LogShift(<<x[1], -7>>))

FLog(x) == Eval1(FLogV, x)

\* ------------------------------------------------------------------------
\* Psychrometric property functions
\* ------------------------------------------------------------------------

\* In the definitions below the body of a function is written over the
\* values of its arguments (the names bound by LAMBDA), the arguments being
\* evaluated once on entry.

saettigungsdampfdruck(temp) ==
    Eval1(LAMBDA t :
              FMul(Lit(6112, -1),
                   FExp(FDiv(FMul(Lit(1767, -2), t), FAdd(t, Lit(2435, -1))))),
          temp)

\* 0.622 * e / (101325 - e)
FeuchteAusDampfdruck(e) ==
    Eval1(LAMBDA ev : FDiv(FMul(Lit(622, -3), ev), FSub(FromInt(101325), ev)), e)

abs_feuchte_aus_rel_feuchte(temp, rel_feuchte) ==
    FeuchteAusDampfdruck(
        FMul(FDiv(rel_feuchte, FromInt(100)), saettigungsdampfdruck(temp)))

\* Faulty variant: 0.662 for 0.622.
DampfdruckAusFeuchteVerschrieben(abs_feuchte) ==
    Eval1(LAMBDA w : FDiv(FMul(w, FromInt(101325)), FAdd(Lit(662, -3), w)),
          abs_feuchte)

\* abs_feuchte * 101325 / (0.622 + abs_feuchte)
DampfdruckAusFeuchte(abs_feuchte) ==
    Eval1(LAMBDA w : FDiv(FMul(w, FromInt(101325)), FAdd(Lit(622, -3), w)),
          abs_feuchte)

rel_feuchte_aus_abs_feuchte(temp, abs_feuchte) ==
    FMin(FromInt(100),
         FMul(FDiv(DampfdruckAusFeuchte(abs_feuchte), saettigungsdampfdruck(temp)),
              FromInt(100)))

enthalpie_feuchte_luft(temp, abs_feuchte) ==
    Eval1(LAMBDA t :
              FAdd(FMul(FromInt(1005), t),
                   FMul(abs_feuchte,
                        FAdd(FromInt(2501000), FMul(FromInt(1870), t)))),
          temp)

\* 243.5 * l / (17.67 - l) with l = np.log(e / 611.2)
TaupunktAusLog(l) ==
    Eval1(LAMBDA lv : FDiv(FMul(Lit(2435, -1), lv), FSub(Lit(1767, -2), lv)), l)

taupunkt_aus_abs_feuchte_OhneVorzeichen(abs_feuchte) ==
    Eval1(LAMBDA w :
              IF FLe(w, <<0, 0>>) THEN FromInt(50)
              ELSE TaupunktAusLog(
                       FLog(FDiv(DampfdruckAusFeuchte(w), Lit(6112, -1)))),
          abs_feuchte)

taupunkt_aus_abs_feuchte(abs_feuchte) ==
    Eval1(LAMBDA w :
              IF FLe(w, <<0, 0>>) THEN FromInt(-50)
              ELSE TaupunktAusLog(
                       FLog(FDiv(DampfdruckAusFeuchte(w), Lit(6112, -1)))),
          abs_feuchte)

kuhltemperatur_fur_entfeuchtung(ziel_abs_feuchte) ==
    FSub(taupunkt_aus_abs_feuchte(ziel_abs_feuchte), FromInt(1))

\* ------------------------------------------------------------------------
\* Air states and the process record
\* ------------------------------------------------------------------------

\* Python's None (an argument left at its default, a local not yet bound).
None == <<>>

Zero == <<0, 0>>

\* A dict is the sequence of its <<key, value>> pairs in insertion order.
Get(dict, key) == dict[CHOOSE i \in 1..Len(dict) : dict[i][1] = key][2]

Keys(dict) == [i \in 1..Len(dict) |-> dict[i][1]]

\* dict[key] = value for a key the dict does not hold yet.
SetNew(dict, key, value) == Append(dict, <<key, value>>)

\* The rounded fields are held as integers: tenths for round(x, 1),
\* hundredths for round(x, 2).
Luftzustand(temp, rel_feuchte, abs_feuchte) ==
    << <<"temperatur", RoundTo(temp, 1)>>,
       <<"rel_feuchte", RoundTo(rel_feuchte, 1)>>,
       <<"abs_feuchte", RoundTo(FMul(abs_feuchte, FromInt(1000)), 2)>>,
       <<"enthalpie",
         RoundTo(FDiv(enthalpie_feuchte_luft(temp, abs_feuchte), FromInt(1000)),
                 1)>>,
       <<"taupunkt", RoundTo(taupunkt_aus_abs_feuchte(abs_feuchte), 1)>> >>

\* Called with rel_feuchte (abs_feuchte = None) or with abs_feuchte
\* (rel_feuchte = None): the other one is derived.
berechne_luftzustand(temp, rel_feuchte, abs_feuchte) ==
    Eval2(LAMBDA t, rw :
              IF rw[2] = None
              THEN Eval1(LAMBDA af : Luftzustand(t, rw[1], af),
                         abs_feuchte_aus_rel_feuchte(t, rw[1]))
              ELSE Eval1(LAMBDA rf : Luftzustand(t, rf, rw[2]),
                         rel_feuchte_aus_abs_feuchte(t, rw[2])),
          temp, <<rel_feuchte, abs_feuchte>>)

\* The step labels ('punkt'); the cooling label carries the cooling
\* temperature formatted with one decimal.
PunktAussenluft == <<"Aussenluft">>

PunktNachWRG == <<"Nach WRG">>

PunktGekuehlt(temp_kuehlung) == <<"Gekuehlt auf", RoundTo(temp_kuehlung, 1)>>

PunktNachheizung == <<"Nachheizung">>

PunktErwaermung == <<"Erwaermung">>

PunktKuehlung == <<"Kuehlung">>

\* prozess as built at the top of berechne_rlt_prozess.
ProzessLeer ==
    [schritte |-> <<>>,
     leistungen |-> [kuehlung_entf |-> Zero, nachheizung |-> Zero,
                     heizung_direkt |-> Zero, kuehlung_direkt |-> Zero]]

\* ------------------------------------------------------------------------
\* Inputs
\* ------------------------------------------------------------------------

\* Grid sizes: each input range is sampled at n + 1 points, ends included.
NTempAussen == 4

NFeuchteAussen == 3

NTempZuluft == 2

NFeuchteZuluft == 2

NWrg == 2

Grid(lo, hi, n) == {lo + ((hi - lo) * i) \div n : i \in 0..n}

\* Temperatures are entered in half degrees, humidities and the heat
\* recovery effectiveness in whole percent.
Halbgrad(h) == Lit(5 * h, -1)

Prozent(p) == FDiv(FromInt(p), FromInt(100))

Eingabe(ta, fa, tz, fz, w, entf) ==
    [temp_aussen |-> Halbgrad(ta), feuchte_aussen |-> FromInt(fa),
     temp_zuluft |-> Halbgrad(tz), feuchte_zuluft_soll |-> FromInt(fz),
     wrg_grad |-> Prozent(w), entfeuchten |-> entf]

\* Inputs inside the ranges of the sliders, with wrg_grad up to 1.
EingabenBereich ==
    {Eingabe(ta, fa, tz, fz, w, entf) :
        ta \in Grid(-40, 90, NTempAussen),
        fa \in Grid(20, 95, NFeuchteAussen),
        tz \in Grid(32, 60, NTempZuluft),
        fz \in Grid(30, 70, NFeuchteZuluft),
        w \in Grid(0, 95, NWrg) \cup {100},
        entf \in BOOLEAN}

\* The two documented scenarios.
EingabenSzenarien ==
    {Eingabe(10, 85, 44, 50, 75, TRUE), Eingabe(60, 40, 40, 40, 0, FALSE)}

\* Inputs only the unbounded 'Exakt' number inputs allow.
EingabenExakt ==
    {Eingabe(ta, fa, tz, fz, w, entf) :
        ta \in {-60, 0, 5, 70, 100},
        fa \in {0, 100, 200, 300},
        tz \in {20, 44, 70},
        fz \in {50, 100, 120},
        w \in {0, 75},
        entf \in BOOLEAN}

\* Quarter-degree supply temperatures with a full heat recovery.
EingabenViertelgrad ==
    {[Eingabe(ta, 50, 44, 50, 100, entf) EXCEPT !.temp_zuluft = Lit(tz, -2)] :
        ta \in {-40, 10, 60}, tz \in {2025, 2075}, entf \in BOOLEAN}

\* A target humidity of 0 % with supply temperatures around -51 degC.
EingabenTrocken ==
    {Eingabe(ta, 85, tz, 0, w, entf) :
        ta \in {10, 60}, tz \in {-120, -102, 44}, w \in {0, 75},
        entf \in BOOLEAN}

Eingaben ==
    EingabenBereich \cup EingabenSzenarien \cup EingabenExakt
        \cup EingabenViertelgrad \cup EingabenTrocken

\* The documented ranges of the inputs.
ImBereich(ein) ==
    /\ FLe(FromInt(-20), ein.temp_aussen) /\ FLe(ein.temp_aussen, FromInt(45))
    /\ FLe(FromInt(20), ein.feuchte_aussen) /\ FLe(ein.feuchte_aussen, FromInt(95))
    /\ FLe(FromInt(16), ein.temp_zuluft) /\ FLe(ein.temp_zuluft, FromInt(30))
    /\ FLe(FromInt(30), ein.feuchte_zuluft_soll)
    /\ FLe(ein.feuchte_zuluft_soll, FromInt(70))
    /\ FLe(Zero, ein.wrg_grad) /\ FLe(ein.wrg_grad, Lit(95, -2))

\* ------------------------------------------------------------------------
\* berechne_rlt_prozess
\* ------------------------------------------------------------------------

VARIABLES
    eingabe,               \* the arguments of the call
    pc,                    \* the position in berechne_rlt_prozess
    prozess,               \* the result being built
    abs_feuchte_aussen,
    aktuelle_temp,
    aktuelle_abs_feuchte,
    ziel_abs_feuchte,
    temp_kuehlung,
    konv,                  \* a humidity conversion there and back
    df_prozess,            \* the process table of the results column
    luft,                  \* one call of each psychrometric function
    betriebszeiten,        \* the weekday profiles of the sidebar
    wartungstage_jahr,
    ferien_wochen,
    wochentage,            \* the weekdays the loop has still to visit
    stunden_jahr,
    betriebsprofil_data,   \* the rows of the weekly profile table
    eingabe_modus,
    heizstunden_jahr,
    kuehlstunden_jahr,
    temp_absenkung,
    vol_absenkung,
    volumenstrom,
    prozess_normal,
    prozess_absenk,
    p_heizen_normal,
    p_kuehlen_normal,
    p_heizen_absenk,
    p_kuehlen_absenk,
    energie_heizen,
    energie_kuehlen

prozessVars == <<eingabe, pc, prozess, abs_feuchte_aussen, aktuelle_temp,
                 aktuelle_abs_feuchte, ziel_abs_feuchte, temp_kuehlung>>

betriebVars == <<betriebszeiten, wartungstage_jahr, ferien_wochen, wochentage,
                 stunden_jahr, betriebsprofil_data>>

kostenVars == <<eingabe_modus, heizstunden_jahr, kuehlstunden_jahr,
                temp_absenkung, vol_absenkung, volumenstrom, prozess_normal,
                prozess_absenk, p_heizen_normal, p_kuehlen_normal,
                p_heizen_absenk, p_kuehlen_absenk, energie_heizen,
                energie_kuehlen>>

vars == <<prozessVars, konv, df_prozess, luft, betriebVars, kostenVars>>

\* The parts of the state a specification does not use stay unbound.
ProzessRuht ==
    /\ eingabe = None
    /\ pc = "ruht"
    /\ prozess = None
    /\ abs_feuchte_aussen = None
    /\ aktuelle_temp = None
    /\ aktuelle_abs_feuchte = None
    /\ ziel_abs_feuchte = None
    /\ temp_kuehlung = None

BetriebRuht ==
    /\ betriebszeiten = None
    /\ wartungstage_jahr = None
    /\ ferien_wochen = None
    /\ wochentage = None
    /\ stunden_jahr = None
    /\ betriebsprofil_data = None

KostenRuht ==
    /\ eingabe_modus = None
    /\ heizstunden_jahr = None
    /\ kuehlstunden_jahr = None
    /\ temp_absenkung = None
    /\ vol_absenkung = None
    /\ volumenstrom = None
    /\ prozess_normal = None
    /\ prozess_absenk = None
    /\ p_heizen_normal = None
    /\ p_kuehlen_normal = None
    /\ p_heizen_absenk = None
    /\ p_kuehlen_absenk = None
    /\ energie_heizen = None
    /\ energie_kuehlen = None

\* zustand['punkt'] = punkt
Schritt(zustand, punkt) == SetNew(zustand, "punkt", punkt)

\* Faulty variant: the step is put in front of the list.
MitSchrittVorn(p, schritt) == [p EXCEPT !.schritte = <<schritt>> \o @]

\* prozess['schritte'].append(schritt)
MitSchritt(p, schritt) == [p EXCEPT !.schritte = Append(@, schritt)]

\* prozess['leistungen'][name] = wert
MitLeistung(p, name, wert) == [p EXCEPT !.leistungen[name] = wert]

\* Faulty variant: wrg_grad >= 0.
WRGVorhandenAbNull(wrg_grad) == FLe(Zero, wrg_grad)

\* if wrg_grad > 0
WRGVorhanden(wrg_grad) == FLt(Zero, wrg_grad)

\* Faulty variant: the two temperatures exchanged.
TempNachWRGVertauscht(temp_aussen, temp_zuluft, wrg_grad) ==
    FAdd(temp_zuluft, FMul(FSub(temp_aussen, temp_zuluft), wrg_grad))

TempNachWRG(temp_aussen, temp_zuluft, wrg_grad) ==
    FAdd(temp_aussen, FMul(FSub(temp_zuluft, temp_aussen), wrg_grad))

\* Faulty variant: the step also writes an energy of its own.
NachWRGMitGewinn(p, temp_nach_wrg, abs_feuchte) ==
    [schritte |-> Append(p.schritte,
                         Schritt(berechne_luftzustand(temp_nach_wrg, None,
                                                      abs_feuchte),
                                 PunktNachWRG)),
     leistungen |-> p.leistungen @@
                        ("heat_recovery_gain" :>
                             enthalpie_feuchte_luft(temp_nach_wrg, abs_feuchte))]

\* The 'Nach WRG' step: the humidity ratio stays that of the outdoor air.
NachWRG(p, temp_nach_wrg, abs_feuchte) ==
    MitSchritt(p, Schritt(berechne_luftzustand(temp_nach_wrg, None, abs_feuchte),
                          PunktNachWRG))

\* Faulty variant: the humidity comparison left out.
MussEntfeuchtenOhneVergleich(entfeuchten, abs_feuchte, ziel) == entfeuchten

\* if entfeuchten and aktuelle_abs_feuchte > ziel_abs_feuchte
MussEntfeuchten(entfeuchten, abs_feuchte, ziel) ==
    entfeuchten /\ FLt(ziel, abs_feuchte)

\* enthalpie_vorher - enthalpie_nachher of the dehumidification cooling
LeistungKuehlungEntf(temp, abs_feuchte, temp_k, ziel) ==
    FSub(enthalpie_feuchte_luft(temp, abs_feuchte),
         enthalpie_feuchte_luft(temp_k, ziel))

\* Faulty variant: the reheat is not conditional.
NachheizungImmer(temp_k, temp_zuluft) == TRUE

\* if temp_kuehlung < temp_zuluft
NachheizungNoetig(temp_k, temp_zuluft) == FLt(temp_k, temp_zuluft)

\* Faulty variant: enthalpie_vorher - enthalpie_nachher.
LeistungNachheizungVertauscht(temp_k, temp_zuluft, ziel) ==
    FSub(enthalpie_feuchte_luft(temp_k, ziel),
         enthalpie_feuchte_luft(temp_zuluft, ziel))

\* enthalpie_nachher - enthalpie_vorher of the reheat
LeistungNachheizung(temp_k, temp_zuluft, ziel) ==
    FSub(enthalpie_feuchte_luft(temp_zuluft, ziel),
         enthalpie_feuchte_luft(temp_k, ziel))

\* Faulty variant: enthalpie_vorher - enthalpie_nachher.
LeistungHeizungDirektVertauscht(temp, temp_zuluft, abs_feuchte) ==
    FSub(enthalpie_feuchte_luft(temp, abs_feuchte),
         enthalpie_feuchte_luft(temp_zuluft, abs_feuchte))

\* enthalpie_nachher - enthalpie_vorher of the direct heating
LeistungHeizungDirekt(temp, temp_zuluft, abs_feuchte) ==
    FSub(enthalpie_feuchte_luft(temp_zuluft, abs_feuchte),
         enthalpie_feuchte_luft(temp, abs_feuchte))

\* Faulty variant: enthalpie_nachher - enthalpie_vorher.
LeistungKuehlungDirektVertauscht(temp, temp_zuluft, abs_feuchte) ==
    FSub(enthalpie_feuchte_luft(temp_zuluft, abs_feuchte),
         enthalpie_feuchte_luft(temp, abs_feuchte))

\* enthalpie_vorher - enthalpie_nachher of the direct cooling
LeistungKuehlungDirekt(temp, temp_zuluft, abs_feuchte) ==
    FSub(enthalpie_feuchte_luft(temp, abs_feuchte),
         enthalpie_feuchte_luft(temp_zuluft, abs_feuchte))

\* Faulty variant: the final state is built at the current temperature.
DirekteTemperierungAlteTemp(p, temp, temp_zuluft, abs_feuchte) ==
    IF FLt(temp, temp_zuluft)
    THEN MitLeistung(
             MitSchritt(p, Schritt(berechne_luftzustand(temp, None, abs_feuchte),
                                   PunktErwaermung)),
             "heizung_direkt",
             LeistungHeizungDirekt(temp, temp_zuluft, abs_feuchte))
    ELSE IF FLt(temp_zuluft, temp)
    THEN MitLeistung(
             MitSchritt(p, Schritt(berechne_luftzustand(temp, None, abs_feuchte),
                                   PunktKuehlung)),
             "kuehlung_direkt",
             LeistungKuehlungDirekt(temp, temp_zuluft, abs_feuchte))
    ELSE p

\* Faulty variant: two independent ifs with <= and >=.
DirekteTemperierungBeide(p, temp, temp_zuluft, abs_feuchte) ==
    Eval1(LAMBDA q :
              IF FLe(temp_zuluft, temp)
              THEN MitLeistung(
                       MitSchritt(q, Schritt(berechne_luftzustand(
                                                 temp_zuluft, None, abs_feuchte),
                                             PunktKuehlung)),
                       "kuehlung_direkt",
                       LeistungKuehlungDirekt(temp, temp_zuluft, abs_feuchte))
              ELSE q,
          IF FLe(temp, temp_zuluft)
          THEN MitLeistung(
                   MitSchritt(p, Schritt(berechne_luftzustand(
                                             temp_zuluft, None, abs_feuchte),
                                         PunktErwaermung)),
                   "heizung_direkt",
                   LeistungHeizungDirekt(temp, temp_zuluft, abs_feuchte))
          ELSE p)

\* The else branch: direct tempering without dehumidification.
DirekteTemperierung(p, temp, temp_zuluft, abs_feuchte) ==
    IF FLt(temp, temp_zuluft)
    THEN MitLeistung(
             MitSchritt(p, Schritt(berechne_luftzustand(temp_zuluft, None,
                                                        abs_feuchte),
                                   PunktErwaermung)),
             "heizung_direkt",
             LeistungHeizungDirekt(temp, temp_zuluft, abs_feuchte))
    ELSE IF FLt(temp_zuluft, temp)
    THEN MitLeistung(
             MitSchritt(p, Schritt(berechne_luftzustand(temp_zuluft, None,
                                                        abs_feuchte),
                                   PunktKuehlung)),
             "kuehlung_direkt",
             LeistungKuehlungDirekt(temp, temp_zuluft, abs_feuchte))
    ELSE p

\* The if branch: cooling to the coil temperature, then the reheat if the
\* coil is colder than the supply air.
MitEntfeuchtung(p, temp, abs_feuchte, ziel, temp_zuluft) ==
    Eval1(LAMBDA tk :
              Eval1(LAMBDA pk :
                        IF NachheizungNoetig(tk, temp_zuluft)
                        THEN MitLeistung(
                                 MitSchritt(pk,
                                     Schritt(berechne_luftzustand(temp_zuluft,
                                                                  None, ziel),
                                             PunktNachheizung)),
                                 "nachheizung",
                                 LeistungNachheizung(tk, temp_zuluft, ziel))
                        ELSE pk,
                    MitLeistung(
                        MitSchritt(p,
                            Schritt(berechne_luftzustand(tk, None, ziel),
                                    PunktGekuehlt(tk))),
                        "kuehlung_entf",
                        LeistungKuehlungEntf(temp, abs_feuchte, tk, ziel))),
          kuhltemperatur_fur_entfeuchtung(ziel))

\* The prozess after the outdoor air step and the heat recovery.
VorBehandlung(e, abs_feuchte_a, temp) ==
    Eval1(LAMBDA pa :
              IF WRGVorhanden(e.wrg_grad) THEN NachWRG(pa, temp, abs_feuchte_a)
              ELSE pa,
          MitSchritt(ProzessLeer,
              Schritt(berechne_luftzustand(e.temp_aussen, e.feuchte_aussen, None),
                      PunktAussenluft)))

\* The whole call as a function of its arguments e, for the callers that
\* use the returned prozess.
berechne_rlt_prozess(e) ==
    Eval2(LAMBDA w, t :
              Eval2(LAMBDA pv, ziel :
                        IF MussEntfeuchten(e.entfeuchten, w, ziel)
                        THEN MitEntfeuchtung(pv, t, w, ziel, e.temp_zuluft)
                        ELSE DirekteTemperierung(pv, t, e.temp_zuluft, w),
                    VorBehandlung(e, w, t),
                    abs_feuchte_aus_rel_feuchte(e.temp_zuluft,
                                                e.feuchte_zuluft_soll)),
          abs_feuchte_aus_rel_feuchte(e.temp_aussen, e.feuchte_aussen),
          IF WRGVorhanden(e.wrg_grad)
          THEN TempNachWRG(e.temp_aussen, e.temp_zuluft, e.wrg_grad)
          ELSE e.temp_aussen)

Init ==
    /\ eingabe \in Eingaben
    /\ pc = "aussenluft"
    /\ prozess = ProzessLeer
    /\ abs_feuchte_aussen = None
    /\ aktuelle_temp = None
    /\ aktuelle_abs_feuchte = None
    /\ ziel_abs_feuchte = None
    /\ temp_kuehlung = None
    /\ konv = None
    /\ df_prozess = None
    /\ luft = None
    /\ BetriebRuht
    /\ KostenRuht

Aussenluft ==
    /\ pc = "aussenluft"
    /\ abs_feuchte_aussen' =
           abs_feuchte_aus_rel_feuchte(eingabe.temp_aussen, eingabe.feuchte_aussen)
    /\ prozess' = MitSchritt(prozess,
           Schritt(berechne_luftzustand(eingabe.temp_aussen,
                                        eingabe.feuchte_aussen, None),
                   PunktAussenluft))
    /\ aktuelle_temp' = eingabe.temp_aussen
    /\ aktuelle_abs_feuchte' = abs_feuchte_aussen'
    /\ pc' = "wrg"
    /\ UNCHANGED <<eingabe, ziel_abs_feuchte, temp_kuehlung, konv>>
    /\ UNCHANGED <<df_prozess, luft, betriebVars, kostenVars>>

WRG ==
    /\ pc = "wrg"
    /\ WRGVorhanden(eingabe.wrg_grad)
    /\ aktuelle_temp' = TempNachWRG(eingabe.temp_aussen, eingabe.temp_zuluft,
                                    eingabe.wrg_grad)
    /\ prozess' = NachWRG(prozess, aktuelle_temp', abs_feuchte_aussen)
    /\ pc' = "ziel"
    /\ UNCHANGED <<eingabe, abs_feuchte_aussen, aktuelle_abs_feuchte,
                   ziel_abs_feuchte, temp_kuehlung, konv>>
    /\ UNCHANGED <<df_prozess, luft, betriebVars, kostenVars>>

OhneWRG ==
    /\ pc = "wrg"
    /\ ~WRGVorhanden(eingabe.wrg_grad)
    /\ pc' = "ziel"
    /\ UNCHANGED <<eingabe, prozess, abs_feuchte_aussen, aktuelle_temp,
                   aktuelle_abs_feuchte, ziel_abs_feuchte, temp_kuehlung, konv>>
    /\ UNCHANGED <<df_prozess, luft, betriebVars, kostenVars>>

Zielfeuchte ==
    /\ pc = "ziel"
    /\ ziel_abs_feuchte' =
           abs_feuchte_aus_rel_feuchte(eingabe.temp_zuluft,
                                       eingabe.feuchte_zuluft_soll)
    /\ pc' = "behandlung"
    /\ UNCHANGED <<eingabe, prozess, abs_feuchte_aussen, aktuelle_temp,
                   aktuelle_abs_feuchte, temp_kuehlung, konv>>
    /\ UNCHANGED <<df_prozess, luft, betriebVars, kostenVars>>

Entfeuchtung ==
    /\ pc = "behandlung"
    /\ MussEntfeuchten(eingabe.entfeuchten, aktuelle_abs_feuchte, ziel_abs_feuchte)
    /\ temp_kuehlung' = kuhltemperatur_fur_entfeuchtung(ziel_abs_feuchte)
    /\ prozess' = MitLeistung(
           MitSchritt(prozess,
               Schritt(berechne_luftzustand(temp_kuehlung', None, ziel_abs_feuchte),
                       PunktGekuehlt(temp_kuehlung'))),
           "kuehlung_entf",
           LeistungKuehlungEntf(aktuelle_temp, aktuelle_abs_feuchte,
                                temp_kuehlung', ziel_abs_feuchte))
    /\ aktuelle_temp' = temp_kuehlung'
    /\ aktuelle_abs_feuchte' = ziel_abs_feuchte
    /\ pc' = "nachheizung"
    /\ UNCHANGED <<eingabe, abs_feuchte_aussen, ziel_abs_feuchte, konv>>
    /\ UNCHANGED <<df_prozess, luft, betriebVars, kostenVars>>

Nachheizung ==
    /\ pc = "nachheizung"
    /\ NachheizungNoetig(temp_kuehlung, eingabe.temp_zuluft)
    /\ prozess' = MitLeistung(
           MitSchritt(prozess,
               Schritt(berechne_luftzustand(eingabe.temp_zuluft, None,
                                            ziel_abs_feuchte),
                       PunktNachheizung)),
           "nachheizung",
           LeistungNachheizung(temp_kuehlung, eingabe.temp_zuluft,
                               ziel_abs_feuchte))
    /\ pc' = "fertig"
    /\ UNCHANGED <<eingabe, abs_feuchte_aussen, aktuelle_temp,
                   aktuelle_abs_feuchte, ziel_abs_feuchte, temp_kuehlung, konv>>
    /\ UNCHANGED <<df_prozess, luft, betriebVars, kostenVars>>

OhneNachheizung ==
    /\ pc = "nachheizung"
    /\ ~NachheizungNoetig(temp_kuehlung, eingabe.temp_zuluft)
    /\ pc' = "fertig"
    /\ UNCHANGED <<eingabe, prozess, abs_feuchte_aussen, aktuelle_temp,
                   aktuelle_abs_feuchte, ziel_abs_feuchte, temp_kuehlung, konv>>
    /\ UNCHANGED <<df_prozess, luft, betriebVars, kostenVars>>

\* The three outcomes of the else branch are separate steps of the model.
Direkt ==
    /\ pc = "behandlung"
    /\ ~MussEntfeuchten(eingabe.entfeuchten, aktuelle_abs_feuchte,
                        ziel_abs_feuchte)
    /\ prozess' = DirekteTemperierung(prozess, aktuelle_temp, eingabe.temp_zuluft,
                                      aktuelle_abs_feuchte)
    /\ pc' = "fertig"
    /\ UNCHANGED <<eingabe, abs_feuchte_aussen, aktuelle_temp,
                   aktuelle_abs_feuchte, ziel_abs_feuchte, temp_kuehlung, konv>>
    /\ UNCHANGED <<df_prozess, luft, betriebVars, kostenVars>>

Erwaermung ==
    /\ pc = "behandlung"
    /\ FLt(aktuelle_temp, eingabe.temp_zuluft)
    /\ Direkt

Kuehlung ==
    /\ pc = "behandlung"
    /\ FLt(eingabe.temp_zuluft, aktuelle_temp)
    /\ Direkt

OhneTemperierung ==
    /\ pc = "behandlung"
    /\ ~FLt(aktuelle_temp, eingabe.temp_zuluft)
    /\ ~FLt(eingabe.temp_zuluft, aktuelle_temp)
    /\ Direkt

\* pd.DataFrame(list of dicts): the columns are the keys in the order the
\* dicts hold them, each row the values of one dict in that order.
DataFrame(zeilen) ==
    [columns |-> Keys(zeilen[1]),
     data |-> [i \in 1..Len(zeilen) |->
                  [j \in 1..Len(Keys(zeilen[1])) |->
                      Get(zeilen[i], Keys(zeilen[1])[j])]]]

Kopfzeilen ==
    <<"Prozessschritt", "Temperatur [°C]", "rel. Feuchte [%]",
      "abs. Feuchte [g/kg]", "Enthalpie [kJ/kg]", "Taupunkt [°C]">>

\* df.columns = namen: the columns are renamed by position.
MitSpaltennamen(df, namen) == [df EXCEPT !.columns = namen]

\* The table of the tab 'Prozess', built from the finished prozess_normal.
ProzessTabelle ==
    /\ pc = "fertig"
    /\ df_prozess = None
    /\ df_prozess' = MitSpaltennamen(DataFrame(prozess.schritte), Kopfzeilen)
    /\ UNCHANGED <<prozessVars, konv, luft, betriebVars, kostenVars>>

Next ==
    \/ Aussenluft
    \/ WRG
    \/ OhneWRG
    \/ Zielfeuchte
    \/ Entfeuchtung
    \/ Nachheizung
    \/ OhneNachheizung
    \/ Erwaermung
    \/ Kuehlung
    \/ OhneTemperierung
    \/ ProzessTabelle

Spec == Init /\ [][Next]_vars

\* ------------------------------------------------------------------------
\* The humidity conversions, there and back
\* ------------------------------------------------------------------------

NRundreiseTemp == 13

NRundreiseFeuchte == 10

\* rel. humidity -> humidity ratio -> rel. humidity at one temperature
InitRundreise ==
    /\ konv \in {[temp |-> Halbgrad(t), rel_feuchte |-> FromInt(rf),
                  abs_feuchte |-> None, rel_zurueck |-> None] :
                    t \in Grid(-40, 90, NRundreiseTemp),
                    rf \in Grid(0, 100, NRundreiseFeuchte)}
    /\ eingabe = Eingabe(10, 85, 44, 50, 75, TRUE)
    /\ pc = "ruht"
    /\ prozess = ProzessLeer
    /\ abs_feuchte_aussen = None
    /\ aktuelle_temp = None
    /\ aktuelle_abs_feuchte = None
    /\ ziel_abs_feuchte = None
    /\ temp_kuehlung = None
    /\ df_prozess = None
    /\ luft = None
    /\ BetriebRuht
    /\ KostenRuht

Hinrechnung ==
    /\ konv.abs_feuchte = None
    /\ konv' = [konv EXCEPT !.abs_feuchte =
                   abs_feuchte_aus_rel_feuchte(konv.temp, konv.rel_feuchte)]
    /\ UNCHANGED <<eingabe, pc, prozess, abs_feuchte_aussen, aktuelle_temp,
                   aktuelle_abs_feuchte, ziel_abs_feuchte, temp_kuehlung>>
    /\ UNCHANGED <<df_prozess, luft, betriebVars, kostenVars>>

Rueckrechnung ==
    /\ konv.abs_feuchte # None
    /\ konv.rel_zurueck = None
    /\ konv' = [konv EXCEPT !.rel_zurueck =
                   rel_feuchte_aus_abs_feuchte(konv.temp, konv.abs_feuchte)]
    /\ UNCHANGED <<eingabe, pc, prozess, abs_feuchte_aussen, aktuelle_temp,
                   aktuelle_abs_feuchte, ziel_abs_feuchte, temp_kuehlung>>
    /\ UNCHANGED <<df_prozess, luft, betriebVars, kostenVars>>

NextRundreise == Hinrechnung \/ Rueckrechnung

SpecRundreise == InitRundreise /\ [][NextRundreise]_vars

\* ------------------------------------------------------------------------
\* The psychrometric functions called on their own
\* ------------------------------------------------------------------------

\* Humidity ratios in kg/kg: negative, zero, ordinary and above saturation.
FeuchtenAllerArt ==
    {Lit(-1, 0), Lit(-1, -3), Zero, Lit(5, -3), Lit(8, -3), Lit(5, -2), Lit(1, 0)}

TemperaturenAllerArt == {Halbgrad(-20), Halbgrad(40), Halbgrad(70)}

\* One pair of arguments: a temperature with a humidity ratio, or with a
\* relative humidity as berechne_luftzustand also accepts it.
Aufruf(temp, rel_feuchte, abs_feuchte) ==
    [temp |-> temp, rel_feuchte |-> rel_feuchte, abs_feuchte |-> abs_feuchte,
     rel |-> None, taupunkt |-> None, kuehltemperatur |-> None,
     zustand |-> None]

InitZustand ==
    /\ luft \in {Aufruf(t, None, w) : t \in TemperaturenAllerArt,
                                      w \in FeuchtenAllerArt}
             \cup {Aufruf(t, FromInt(rf), None) : t \in TemperaturenAllerArt,
                                                  rf \in {0, 50, 100}}
    /\ ProzessRuht
    /\ konv = None
    /\ df_prozess = None
    /\ BetriebRuht
    /\ KostenRuht

RelFeuchteAusAbsFeuchte ==
    /\ luft.abs_feuchte # None
    /\ luft.rel = None
    /\ luft' = [luft EXCEPT !.rel =
                   rel_feuchte_aus_abs_feuchte(luft.temp, luft.abs_feuchte)]
    /\ UNCHANGED <<prozessVars, konv, df_prozess, betriebVars, kostenVars>>

TaupunktAusAbsFeuchte ==
    /\ luft.abs_feuchte # None
    /\ luft.taupunkt = None
    /\ luft' = [luft EXCEPT !.taupunkt =
                   taupunkt_aus_abs_feuchte(luft.abs_feuchte)]
    /\ UNCHANGED <<prozessVars, konv, df_prozess, betriebVars, kostenVars>>

KuhltemperaturFurEntfeuchtung ==
    /\ luft.abs_feuchte # None
    /\ luft.kuehltemperatur = None
    /\ luft' = [luft EXCEPT !.kuehltemperatur =
                   kuhltemperatur_fur_entfeuchtung(luft.abs_feuchte)]
    /\ UNCHANGED <<prozessVars, konv, df_prozess, betriebVars, kostenVars>>

BerechneLuftzustand ==
    /\ luft.zustand = None
    /\ luft' = [luft EXCEPT !.zustand =
                   berechne_luftzustand(luft.temp, luft.rel_feuchte,
                                        luft.abs_feuchte)]
    /\ UNCHANGED <<prozessVars, konv, df_prozess, betriebVars, kostenVars>>

NextZustand ==
    \/ RelFeuchteAusAbsFeuchte
    \/ TaupunktAusAbsFeuchte
    \/ KuhltemperaturFurEntfeuchtung
    \/ BerechneLuftzustand

SpecZustand == InitZustand /\ [][NextZustand]_vars

\* ------------------------------------------------------------------------
\* berechne_betriebsstunden and the weekly profile table
\* ------------------------------------------------------------------------

Wochentage == <<"mo", "di", "mi", "do", "fr", "sa", "so">>

TagNamen == <<"Mo", "Di", "Mi", "Do", "Fr", "Sa", "So">>

\* One entry of betriebszeiten as the weekday widgets write it: an inactive
\* day gets normal_von = normal_bis = 0 and no setback.
Tagesprofil(aktiv, normal_von, normal_bis, absenk_aktiv) ==
    IF aktiv
    THEN [aktiv |-> TRUE, normal_von |-> normal_von, normal_bis |-> normal_bis,
          absenk_aktiv |-> absenk_aktiv]
    ELSE [aktiv |-> FALSE, normal_von |-> 0, normal_bis |-> 0,
          absenk_aktiv |-> FALSE]

\* The number inputs take normal_von in 0..23 and normal_bis in 1..24
\* independently of each other; these are the profiles of the model.
Tagesprofile ==
    {Tagesprofil(FALSE, 0, 0, FALSE),
     Tagesprofil(TRUE, 8, 18, TRUE),
     Tagesprofil(TRUE, 8, 18, FALSE),
     Tagesprofil(TRUE, 0, 24, TRUE),
     Tagesprofil(TRUE, 23, 24, FALSE),
     Tagesprofil(TRUE, 18, 8, TRUE),
     Tagesprofil(TRUE, 12, 12, FALSE)}

\* Monday, Tuesday to Friday, and the weekend are set independently.
Betriebszeiten ==
    {[tag \in {Wochentage[i] : i \in 1..7} |->
         IF tag = "mo" THEN m
         ELSE IF tag \in {"sa", "so"} THEN w ELSE d] :
       m \in Tagesprofile, d \in Tagesprofile, w \in Tagesprofile}

Wartungstage == {0, 10, 50}

Ferienwochen == {0, 3, 12}

aktive_wochen(ferien) == 52 - ferien

StundenLeer == [normal |-> 0, absenk |-> 0, aus |-> 0]

normal_stunden_tag(profil) ==
    IF profil.normal_bis > profil.normal_von
    THEN profil.normal_bis - profil.normal_von ELSE 0

absenk_stunden_tag(profil) ==
    IF profil.absenk_aktiv THEN 24 - normal_stunden_tag(profil) ELSE 0

aus_stunden_tag(profil) ==
    24 - normal_stunden_tag(profil) - absenk_stunden_tag(profil)

\* One pass of the loop body for a day, active or not.
NachTag(stunden, profil, ferien) ==
    IF profil.aktiv
    THEN [normal |-> stunden.normal
                       + normal_stunden_tag(profil) * aktive_wochen(ferien),
          absenk |-> stunden.absenk
                       + absenk_stunden_tag(profil) * aktive_wochen(ferien),
          aus |-> stunden.aus + aus_stunden_tag(profil) * aktive_wochen(ferien)]
    ELSE stunden

Max(a, b) == IF a > b THEN a ELSE b

\* The maintenance correction and the total, as returned.
NachWartung(stunden, wartungstage) ==
    [normal |-> Max(0, stunden.normal - wartungstage * 24),
     absenk |-> stunden.absenk,
     aus |-> stunden.aus + wartungstage * 24,
     gesamt |-> Max(0, stunden.normal - wartungstage * 24) + stunden.absenk]

RECURSIVE Wochenschleife(_, _, _, _)
Wochenschleife(stunden, tage, zeiten, ferien) ==
    IF tage = <<>> THEN stunden
    ELSE Wochenschleife(NachTag(stunden, zeiten[Head(tage)], ferien),
                        Tail(tage), zeiten, ferien)

berechne_betriebsstunden(zeiten, wartungstage, ferien) ==
    NachWartung(Wochenschleife(StundenLeer, Wochentage, zeiten, ferien),
                wartungstage)

\* f"{n:02d}" as its two digits.
Zweistellig(n) == <<n \div 10, n % 10>>

\* One row of the table; the hours are computed again here, not taken
\* from berechne_betriebsstunden.
Profilzeile(tag_name, profil) ==
    IF profil.aktiv
    THEN << <<"Wochentag", tag_name>>,
            <<"Normal [h]", profil.normal_bis - profil.normal_von>>,
            <<"Absenk [h]",
              IF profil.absenk_aktiv
              THEN 24 - (profil.normal_bis - profil.normal_von) ELSE 0>>,
            <<"AUS [h]",
              24 - (profil.normal_bis - profil.normal_von)
                 - (IF profil.absenk_aktiv
                    THEN 24 - (profil.normal_bis - profil.normal_von) ELSE 0)>>,
            <<"Normal-Zeit",
              <<Zweistellig(profil.normal_von), ":00-",
                Zweistellig(profil.normal_bis), ":00">> >> >>
    ELSE << <<"Wochentag", tag_name>>, <<"Normal [h]", 0>>,
            <<"Absenk [h]", 0>>, <<"AUS [h]", 24>>, <<"Normal-Zeit", "-">> >>

InitBetrieb ==
    /\ betriebszeiten \in Betriebszeiten
    /\ wartungstage_jahr \in Wartungstage
    /\ ferien_wochen \in Ferienwochen
    /\ wochentage = Wochentage
    /\ stunden_jahr = StundenLeer
    /\ betriebsprofil_data = None
    /\ ProzessRuht
    /\ konv = None
    /\ df_prozess = None
    /\ luft = None
    /\ KostenRuht

\* for tag in wochentage, a day with 'aktiv' set
TagAktiv ==
    /\ wochentage # <<>>
    /\ betriebszeiten[Head(wochentage)].aktiv
    /\ stunden_jahr' = NachTag(stunden_jahr, betriebszeiten[Head(wochentage)],
                               ferien_wochen)
    /\ wochentage' = Tail(wochentage)
    /\ UNCHANGED <<betriebszeiten, wartungstage_jahr, ferien_wochen,
                   betriebsprofil_data>>
    /\ UNCHANGED <<prozessVars, konv, df_prozess, luft, kostenVars>>

\* for tag in wochentage, a day without 'aktiv'
TagInaktiv ==
    /\ wochentage # <<>>
    /\ ~betriebszeiten[Head(wochentage)].aktiv
    /\ wochentage' = Tail(wochentage)
    /\ UNCHANGED <<betriebszeiten, wartungstage_jahr, ferien_wochen,
                   stunden_jahr, betriebsprofil_data>>
    /\ UNCHANGED <<prozessVars, konv, df_prozess, luft, kostenVars>>

\* after the loop: maintenance, total, return
Wartung ==
    /\ wochentage = <<>>
    /\ "gesamt" \notin DOMAIN stunden_jahr
    /\ stunden_jahr' = NachWartung(stunden_jahr, wartungstage_jahr)
    /\ UNCHANGED <<betriebszeiten, wartungstage_jahr, ferien_wochen,
                   wochentage, betriebsprofil_data>>
    /\ UNCHANGED <<prozessVars, konv, df_prozess, luft, kostenVars>>

\* the tab 'Betriebsprofil', drawn after the calculations
Betriebsprofil ==
    /\ wochentage = <<>>
    /\ "gesamt" \in DOMAIN stunden_jahr
    /\ betriebsprofil_data = None
    /\ betriebsprofil_data' =
           [i \in 1..7 |-> Profilzeile(TagNamen[i], betriebszeiten[Wochentage[i]])]
    /\ UNCHANGED <<betriebszeiten, wartungstage_jahr, ferien_wochen,
                   wochentage, stunden_jahr>>
    /\ UNCHANGED <<prozessVars, konv, df_prozess, luft, kostenVars>>

NextBetrieb ==
    \/ TagAktiv
    \/ TagInaktiv
    \/ Wartung
    \/ Betriebsprofil

SpecBetrieb == InitBetrieb /\ [][NextBetrieb]_vars

\* ------------------------------------------------------------------------
\* Powers and annual energies of the results column
\* ------------------------------------------------------------------------

\* The climate inputs as the sidebar hands them on: without dehumidification
\* the target humidity is the outdoor humidity.
KlimaEingabe(ta, fa, tz, fz, w, entf) ==
    Eingabe(ta, fa, tz, IF entf THEN fz ELSE fa, w, entf)

EingabenKosten ==
    {KlimaEingabe(ta, fa, 40, 55, w, entf) :
        ta \in {-10, 16, 36, 44, 60}, fa \in {60, 65}, w \in {0, 70},
        entf \in BOOLEAN}

Automatisch == "Automatisch berechnen"

Manuell == "Heiz-/Kühlstunden manuell eingeben"

\* Monday to Friday 8 to 18 h with setback, the weekend off.
BetriebszeitenVorgabe ==
    [tag \in {Wochentage[i] : i \in 1..7} |->
        Tagesprofil(tag \notin {"sa", "so"}, 8, 18, TRUE)]

\* Python's truth value of a number or None.
Wahr(v) == v # None /\ v # Zero

TempZuluftAbsenkErhoeht(temp_zuluft, absenkung) ==
    FAdd(temp_zuluft, FromInt(absenkung))

\* temp_zuluft - temp_absenkung
TempZuluftAbsenk(temp_zuluft, absenkung) ==
    FSub(temp_zuluft, FromInt(absenkung))

luftmassenstrom_normal(vol) ==
    FDiv(FMul(FromInt(vol), Lit(12, -1)), FromInt(3600))

luftmassenstrom_absenk(vol, absenkung) ==
    FDiv(FMul(FMul(FromInt(vol), FSub(One, absenkung)), Lit(12, -1)),
         FromInt(3600))

\* luftmassenstrom * prozess['leistungen'][name] / 1000
Kilowatt(massenstrom, p, name) ==
    FDiv(FMul(massenstrom, p.leistungen[name]), FromInt(1000))

PHeizen(massenstrom, p) ==
    Eval1(LAMBDA m : FAdd(Kilowatt(m, p, "nachheizung"),
                          Kilowatt(m, p, "heizung_direkt")),
          massenstrom)

PKuehlen(massenstrom, p) ==
    Eval1(LAMBDA m : FAdd(Kilowatt(m, p, "kuehlung_entf"),
                          Kilowatt(m, p, "kuehlung_direkt")),
          massenstrom)

EnergieManuell(p_normal, stunden) == FMul(p_normal, stunden)

EnergieAutomatisch(p_normal, p_absenk, stunden) ==
    FAdd(FMul(p_normal, FromInt(stunden.normal)),
         FMul(p_absenk, FromInt(stunden.absenk)))

InitKosten ==
    /\ eingabe \in EingabenKosten
    /\ temp_absenkung \in {0, 3, 8}
    /\ vol_absenkung \in {Prozent(v) : v \in {0, 30, 70}}
    /\ volumenstrom = 10000
    /\ \/ /\ eingabe_modus = Automatisch
          /\ heizstunden_jahr = None
          /\ kuehlstunden_jahr = None
       \/ /\ eingabe_modus = Manuell
          /\ heizstunden_jahr \in {FromInt(h) : h \in {0, 3000}}
          /\ kuehlstunden_jahr \in {FromInt(k) : k \in {0, 1500}}
    /\ betriebszeiten = BetriebszeitenVorgabe
    /\ wartungstage_jahr = 10
    /\ ferien_wochen = 3
    /\ wochentage = <<>>
    /\ stunden_jahr = berechne_betriebsstunden(betriebszeiten, wartungstage_jahr,
                                               ferien_wochen)
    /\ betriebsprofil_data = None
    /\ prozess_normal = None
    /\ prozess_absenk = None
    /\ p_heizen_normal = None
    /\ p_kuehlen_normal = None
    /\ p_heizen_absenk = None
    /\ p_kuehlen_absenk = None
    /\ energie_heizen = None
    /\ energie_kuehlen = None
    /\ pc = "ruht"
    /\ prozess = None
    /\ abs_feuchte_aussen = None
    /\ aktuelle_temp = None
    /\ aktuelle_abs_feuchte = None
    /\ ziel_abs_feuchte = None
    /\ temp_kuehlung = None
    /\ konv = None
    /\ df_prozess = None
    /\ luft = None

\* prozess_normal and prozess_absenk: the same function called for the
\* target temperature and for the lowered one.
Prozesse ==
    /\ prozess_normal = None
    /\ \E ps \in {[betrieb \in {"normal", "absenk"} |->
                       berechne_rlt_prozess(
                           IF betrieb = "normal" THEN eingabe
                           ELSE [eingabe EXCEPT !.temp_zuluft =
                                    TempZuluftAbsenk(@, temp_absenkung)])]} :
           /\ prozess_normal' = ps["normal"]
           /\ prozess_absenk' = ps["absenk"]
    /\ UNCHANGED <<eingabe_modus, heizstunden_jahr, kuehlstunden_jahr,
                   temp_absenkung, vol_absenkung, volumenstrom, p_heizen_normal,
                   p_kuehlen_normal, p_heizen_absenk, p_kuehlen_absenk,
                   energie_heizen, energie_kuehlen>>
    /\ UNCHANGED <<prozessVars, konv, df_prozess, luft, betriebVars>>

\* Leistungsberechnungen to Gesamtleistungen
Leistungen ==
    /\ prozess_normal # None
    /\ p_heizen_normal = None
    /\ p_heizen_normal' = PHeizen(luftmassenstrom_normal(volumenstrom),
                                  prozess_normal)
    /\ p_kuehlen_normal' = PKuehlen(luftmassenstrom_normal(volumenstrom),
                                    prozess_normal)
    /\ p_heizen_absenk' =
           PHeizen(luftmassenstrom_absenk(volumenstrom, vol_absenkung),
                   prozess_absenk)
    /\ p_kuehlen_absenk' =
           PKuehlen(luftmassenstrom_absenk(volumenstrom, vol_absenkung),
                    prozess_absenk)
    /\ UNCHANGED <<eingabe_modus, heizstunden_jahr, kuehlstunden_jahr,
                   temp_absenkung, vol_absenkung, volumenstrom, prozess_normal,
                   prozess_absenk, energie_heizen, energie_kuehlen>>
    /\ UNCHANGED <<prozessVars, konv, df_prozess, luft, betriebVars>>

\* if heizstunden_jahr and kuehlstunden_jahr
JahresenergieManuell ==
    /\ p_heizen_normal # None
    /\ energie_heizen = None
    /\ Wahr(heizstunden_jahr) /\ Wahr(kuehlstunden_jahr)
    /\ energie_heizen' = EnergieManuell(p_heizen_normal, heizstunden_jahr)
    /\ energie_kuehlen' = EnergieManuell(p_kuehlen_normal, kuehlstunden_jahr)
    /\ UNCHANGED <<eingabe_modus, heizstunden_jahr, kuehlstunden_jahr,
                   temp_absenkung, vol_absenkung, volumenstrom, prozess_normal,
                   prozess_absenk, p_heizen_normal, p_kuehlen_normal,
                   p_heizen_absenk, p_kuehlen_absenk>>
    /\ UNCHANGED <<prozessVars, konv, df_prozess, luft, betriebVars>>

\* else
JahresenergieAutomatisch ==
    /\ p_heizen_normal # None
    /\ energie_heizen = None
    /\ ~(Wahr(heizstunden_jahr) /\ Wahr(kuehlstunden_jahr))
    /\ energie_heizen' = EnergieAutomatisch(p_heizen_normal, p_heizen_absenk,
                                            stunden_jahr)
    /\ energie_kuehlen' = EnergieAutomatisch(p_kuehlen_normal, p_kuehlen_absenk,
                                             stunden_jahr)
    /\ UNCHANGED <<eingabe_modus, heizstunden_jahr, kuehlstunden_jahr,
                   temp_absenkung, vol_absenkung, volumenstrom, prozess_normal,
                   prozess_absenk, p_heizen_normal, p_kuehlen_normal,
                   p_heizen_absenk, p_kuehlen_absenk>>
    /\ UNCHANGED <<prozessVars, konv, df_prozess, luft, betriebVars>>

NextKosten ==
    \/ Prozesse
    \/ Leistungen
    \/ JahresenergieManuell
    \/ JahresenergieAutomatisch

SpecKosten == InitKosten /\ [][NextKosten]_vars

\* ------------------------------------------------------------------------
\* Properties of berechne_rlt_prozess
\* ------------------------------------------------------------------------

Fertig == pc = "fertig"

Leistung(name) == prozess.leistungen[name]

\* The kind of each step, in order: the first part of its 'punkt'.
Arten == [i \in 1..Len(prozess.schritte) |-> Get(prozess.schritte[i], "punkt")[1]]

HatSchritt(art) == \E i \in 1..Len(prozess.schritte) : Arten[i] = art

\* The step of a kind that occurs in 'schritte'.
SchrittDerArt(art) ==
    prozess.schritte[CHOOSE i \in 1..Len(prozess.schritte) : Arten[i] = art]

LetzterSchritt == prozess.schritte[Len(prozess.schritte)]

FAbs(a) == Eval1(LAMBDA v : <<Abs(v[1]), v[2]>>, a)

LeistungenNichtNegativ ==
    \A name \in DOMAIN prozess.leistungen : FLe(Zero, Leistung(name))

\* C1: for inputs in the documented ranges no value of 'leistungen' is
\* negative, in the result and in every state on the way to it.
C1_NichtNegativImBereich == ImBereich(eingabe) => LeistungenNichtNegativ

\* A finished run in the documented ranges that cooled to dehumidify and
\* reheated.
C1_Zeuge ==
    /\ Fertig
    /\ ImBereich(eingabe)
    /\ FLt(Zero, Leistung("kuehlung_entf"))
    /\ FLt(Zero, Leistung("nachheizung"))

\* C2: with entfeuchten set and the outdoor humidity ratio not above the
\* target humidity ratio, the result has kuehlung_entf = 0 and
\* nachheizung = 0 and holds neither a 'Gekuehlt auf' nor a 'Nachheizung'
\* step.
C2_KeineEntfeuchtung ==
    (/\ Fertig
     /\ eingabe.entfeuchten
     /\ FLe(abs_feuchte_aussen, ziel_abs_feuchte))
        => /\ Leistung("kuehlung_entf") = Zero
           /\ Leistung("nachheizung") = Zero
           /\ ~HatSchritt("Gekuehlt auf")
           /\ ~HatSchritt("Nachheizung")

\* A finished run with entfeuchten set whose outdoor air is drier than the
\* target, and which was heated instead.
C2_Zeuge ==
    /\ Fertig
    /\ eingabe.entfeuchten
    /\ FLt(abs_feuchte_aussen, ziel_abs_feuchte)
    /\ HatSchritt("Erwaermung")

WRGEntschieden == pc \notin {"aussenluft", "wrg"}

HalbgradEingabe ==
    /\ Halbgrad(RoundTo(FMul(eingabe.temp_aussen, Two), 0)) = eingabe.temp_aussen
    /\ Halbgrad(RoundTo(FMul(eingabe.temp_zuluft, Two), 0)) = eingabe.temp_zuluft

\* C3 (amended): a 'Nach WRG' step is present if and only if wrg_grad > 0.
\* With wrg_grad = 1 the temperature after the heat recovery is temp_zuluft
\* up to the rounding of the arithmetic, and the step records it rounded to
\* one decimal: the recorded temperature is within 0.05 K of temp_zuluft,
\* and equal to it for temperatures that are multiples of 0.5.
C3_NachWRG ==
    /\ WRGEntschieden => (HatSchritt("Nach WRG") <=> FLt(Zero, eingabe.wrg_grad))
    /\ (pc = "ziel" /\ eingabe.wrg_grad = One)
           => /\ FLe(FAbs(FSub(aktuelle_temp, eingabe.temp_zuluft)),
                     FMul(Lit(1, -6),
                          FAdd(FAbs(eingabe.temp_aussen),
                               FAbs(eingabe.temp_zuluft))))
              /\ Get(SchrittDerArt("Nach WRG"), "temperatur")
                     = RoundTo(aktuelle_temp, 1)
              /\ FLe(FAbs(FSub(Lit(Get(SchrittDerArt("Nach WRG"), "temperatur"),
                                   -1),
                               eingabe.temp_zuluft)),
                     Lit(50001, -6))
              /\ HalbgradEingabe
                     => Lit(Get(SchrittDerArt("Nach WRG"), "temperatur"), -1)
                            = eingabe.temp_zuluft

\* A full heat recovery from half-degree temperatures that differ.
C3_Zeuge ==
    /\ pc = "ziel"
    /\ eingabe.wrg_grad = One
    /\ HalbgradEingabe
    /\ eingabe.temp_aussen # eingabe.temp_zuluft
    /\ HatSchritt("Nach WRG")

\* C3 as stated: a 'Nach WRG' step is present if and only if wrg_grad > 0,
\* and with wrg_grad = 1 the temperature of the step equals temp_zuluft
\* exactly.
C3_Original ==
    /\ WRGEntschieden => (HatSchritt("Nach WRG") <=> FLt(Zero, eingabe.wrg_grad))
    /\ (pc = "ziel" /\ eingabe.wrg_grad = One)
           => Lit(Get(SchrittDerArt("Nach WRG"), "temperatur"), -1)
                  = eingabe.temp_zuluft

\* C4: heizung_direkt and kuehlung_direkt are never both non-zero, and at
\* most one of the steps 'Erwaermung' and 'Kuehlung' is in 'schritte'.
C4_HeizenOderKuehlen ==
    /\ ~(Leistung("heizung_direkt") # Zero /\ Leistung("kuehlung_direkt") # Zero)
    /\ ~(HatSchritt("Erwaermung") /\ HatSchritt("Kuehlung"))

\* A finished run that cooled directly.
C4_Zeuge ==
    /\ Fertig
    /\ HatSchritt("Kuehlung")
    /\ Leistung("kuehlung_direkt") # Zero
    /\ Leistung("heizung_direkt") = Zero

\* Outdoor 5 degC / 85 %, target 22 degC / 50 %, wrg_grad 0.75, entfeuchten.
Szenario5 == Eingabe(10, 85, 44, 50, 75, TRUE)

Temperaturen ==
    [i \in 1..Len(prozess.schritte) |-> Get(prozess.schritte[i], "temperatur")]

Feuchten ==
    [i \in 1..Len(prozess.schritte) |-> Get(prozess.schritte[i], "abs_feuchte")]

\* C5 (amended): for outdoor 5 degC / 85 %, target 22 degC / 50 %,
\* wrg_grad 0.75 and entfeuchten the result has exactly three steps: outdoor
\* (5 degC), after heat recovery (17.75 degC, recorded as 17.8) and heating
\* to 22 degC, all three with the outdoor humidity ratio of 4.58 g/kg, which
\* is below the target of 8.22 g/kg: nothing is cooled or reheated and only
\* heizung_direkt (4308 J/kg) is set.
C5_DreiSchritte ==
    (Fertig /\ eingabe = Szenario5)
        => /\ Arten = <<"Aussenluft", "Nach WRG", "Erwaermung">>
           /\ Temperaturen = <<50, 178, 220>>
           /\ Feuchten = <<458, 458, 458>>
           /\ aktuelle_temp = Lit(1775, -2)
           /\ RoundTo(FMul(ziel_abs_feuchte, FromInt(1000)), 2) = 822
           /\ FLt(abs_feuchte_aussen, ziel_abs_feuchte)
           /\ Leistung("kuehlung_entf") = Zero
           /\ Leistung("nachheizung") = Zero
           /\ Leistung("kuehlung_direkt") = Zero
           /\ RoundTo(Leistung("heizung_direkt"), 0) = 4308

\* The scenario has run to its end.
C5_Zeuge == Fertig /\ eingabe = Szenario5 /\ Len(prozess.schritte) = 3

\* C5 as stated: the scenario returns exactly four steps: outdoor, after
\* heat recovery, after the cooling coil (target humidity ratio, at its dew
\* point minus 1 K) and supply air at 22 degC with the same humidity ratio.
C5_Original ==
    (Fertig /\ eingabe = Szenario5)
        => /\ Arten = <<"Aussenluft", "Nach WRG", "Gekuehlt auf", "Nachheizung">>
           /\ Temperaturen[1] = 50
           /\ Temperaturen[4] = 220
           /\ Feuchten[2] = Feuchten[1]
           /\ Feuchten[3] = 822
           /\ Feuchten[4] = Feuchten[3]

\* The temperature that enters the treatment stage is above temp_zuluft
\* and entfeuchten is not set.
ZuWarmOhneEntfeuchtung ==
    /\ Fertig
    /\ ~eingabe.entfeuchten
    /\ FLt(eingabe.temp_zuluft, aktuelle_temp)

\* Outdoor 30 degC / 40 %, target 20 degC, no heat recovery.
Szenario6 == Eingabe(60, 40, 40, 40, 0, FALSE)

LeistungsNamen ==
    {"kuehlung_entf", "nachheizung", "heizung_direkt", "kuehlung_direkt"}

Anfaenge == {<<"Aussenluft">>, <<"Aussenluft", "Nach WRG">>}

Behandlungen ==
    {<<>>, <<"Gekuehlt auf">>, <<"Gekuehlt auf", "Nachheizung">>,
     <<"Erwaermung">>, <<"Kuehlung">>}

Muster == {anfang \o behandlung : anfang \in Anfaenge, behandlung \in Behandlungen}

\* Every state of schritte is the start of the next one.
NurAngehaengt ==
    /\ Len(prozess.schritte') >= Len(prozess.schritte)
    /\ SubSeq(prozess.schritte', 1, Len(prozess.schritte)) = prozess.schritte

\* C8: the returned 'schritte' is the outdoor step, then at most one
\* 'Nach WRG' step, then either the cooling-coil step with or without the
\* reheat step or at most one direct heating or cooling step: one to four
\* entries; and every step of the run only appends to it.
C8_Reihenfolge ==
    /\ [](Fertig => (Arten \in Muster /\ Len(prozess.schritte) \in 1..4))
    /\ [](pc # "aussenluft" => Arten[1] = "Aussenluft")
    /\ [][NurAngehaengt]_vars

\* A finished run with all four steps.
C8_Zeuge ==
    /\ Fertig
    /\ Arten = <<"Aussenluft", "Nach WRG", "Gekuehlt auf", "Nachheizung">>

\* entfeuchten is set and the outdoor humidity ratio, which the heat recovery
\* leaves unchanged, does not exceed the target humidity ratio.
ZielfeuchteErreicht ==
    /\ Fertig
    /\ eingabe.entfeuchten
    /\ FLe(abs_feuchte_aussen, ziel_abs_feuchte)

LetzteArt == Arten[Len(prozess.schritte)]

\* C11 (amended): with entfeuchten set and the current humidity ratio not
\* above the target, nothing is cooled to dehumidify or reheated and the
\* humidity ratio stays unchanged, but the air is tempered directly: below
\* temp_zuluft an 'Erwaermung' step at temp_zuluft is appended and
\* heizung_direkt is the enthalpy rise, above it a 'Kuehlung' step is
\* appended and kuehlung_direkt is the enthalpy drop; only at temp_zuluft
\* is no step appended and are all four energies 0.
C11_DirektStattEntfeuchtung ==
    ZielfeuchteErreicht
        => /\ Leistung("kuehlung_entf") = Zero
           /\ Leistung("nachheizung") = Zero
           /\ aktuelle_abs_feuchte = abs_feuchte_aussen
           /\ Get(LetzterSchritt, "abs_feuchte") = Feuchten[1]
           /\ FLt(aktuelle_temp, eingabe.temp_zuluft)
                  => /\ LetzteArt = "Erwaermung"
                     /\ Get(LetzterSchritt, "temperatur")
                            = RoundTo(eingabe.temp_zuluft, 1)
                     /\ Leistung("heizung_direkt")
                            = FSub(enthalpie_feuchte_luft(eingabe.temp_zuluft,
                                                          abs_feuchte_aussen),
                                   enthalpie_feuchte_luft(aktuelle_temp,
                                                          abs_feuchte_aussen))
                     /\ FLt(Zero, Leistung("heizung_direkt"))
                     /\ Leistung("kuehlung_direkt") = Zero
           /\ FLt(eingabe.temp_zuluft, aktuelle_temp)
                  => /\ LetzteArt = "Kuehlung"
                     /\ FLt(Zero, Leistung("kuehlung_direkt"))
                     /\ Leistung("heizung_direkt") = Zero
           /\ aktuelle_temp = eingabe.temp_zuluft
                  => /\ LetzteArt \in {"Aussenluft", "Nach WRG"}
                     /\ \A name \in LeistungsNamen : Leistung(name) = Zero

\* A run in the documented ranges that needed no dehumidification and was
\* heated after the heat recovery.
C11_Zeuge ==
    /\ ZielfeuchteErreicht
    /\ ImBereich(eingabe)
    /\ Arten = <<"Aussenluft", "Nach WRG", "Erwaermung">>
    /\ FLt(Zero, Leistung("heizung_direkt"))

\* C11 as stated: with entfeuchten set and the current humidity ratio not
\* above the target, no step follows the outdoor / 'Nach WRG' step and all
\* four energies are 0.
C11_Original ==
    ZielfeuchteErreicht
        => /\ LetzteArt \in {"Aussenluft", "Nach WRG"}
           /\ \A name \in LeistungsNamen : Leistung(name) = Zero

\* The dehumidification cooling has been performed.
Entfeuchtet == Fertig /\ HatSchritt("Gekuehlt auf")

\* C12: after a dehumidification cooling a reheat step is appended if and
\* only if the cooling temperature, the dew point of the target humidity
\* ratio minus 1 K, is below temp_zuluft; the step is at temp_zuluft with the
\* target humidity ratio, follows the cooling step directly, and nachheizung
\* is enthalpy(temp_zuluft, target) - enthalpy(cooling temperature, target);
\* otherwise nachheizung stays 0.
C12_Nachheizung ==
    Entfeuchtet
        => /\ temp_kuehlung
                  = FSub(taupunkt_aus_abs_feuchte(ziel_abs_feuchte), One)
           /\ HatSchritt("Nachheizung")
                  <=> FLt(temp_kuehlung, eingabe.temp_zuluft)
           /\ HatSchritt("Nachheizung")
                  => /\ LetzteArt = "Nachheizung"
                     /\ Arten[Len(prozess.schritte) - 1] = "Gekuehlt auf"
                     /\ Get(LetzterSchritt, "temperatur")
                            = RoundTo(eingabe.temp_zuluft, 1)
                     /\ Get(LetzterSchritt, "abs_feuchte")
                            = RoundTo(FMul(ziel_abs_feuchte, FromInt(1000)), 2)
                     /\ Leistung("nachheizung")
                            = FSub(enthalpie_feuchte_luft(eingabe.temp_zuluft,
                                                          ziel_abs_feuchte),
                                   enthalpie_feuchte_luft(temp_kuehlung,
                                                          ziel_abs_feuchte))
           /\ ~HatSchritt("Nachheizung")
                  => LetzteArt = "Gekuehlt auf" /\ Leistung("nachheizung") = Zero

\* A dehumidification with a reheat in the documented ranges.
C12_Zeuge ==
    /\ Entfeuchtet
    /\ ImBereich(eingabe)
    /\ HatSchritt("Nachheizung")
    /\ FLt(Zero, Leistung("nachheizung"))

WrgBis1 == FLe(Zero, eingabe.wrg_grad) /\ FLe(eingabe.wrg_grad, One)

\* The last entry of 'schritte' was built at temp_zuluft.
EndetBeiZuluft ==
    /\ Get(LetzterSchritt, "temperatur") = RoundTo(eingabe.temp_zuluft, 1)
    /\ \/ LetzteArt \in {"Nachheizung", "Erwaermung", "Kuehlung"}
       \/ /\ LetzteArt \in {"Aussenluft", "Nach WRG"}
          /\ aktuelle_temp = eingabe.temp_zuluft
       \/ /\ LetzteArt = "Gekuehlt auf"
          /\ temp_kuehlung = eingabe.temp_zuluft

\* C15 (amended): with a target relative humidity <= 100 %, wrg_grad in
\* [0, 1] and temp_zuluft not below -51 degC, the last entry of 'schritte'
\* is built at temp_zuluft in every branch.  (Below -51 degC a target
\* humidity ratio <= 0 makes the cooling temperature the sentinel -51 degC,
\* no reheat follows and the last entry is the cooling step at -51 degC.)
C15_EndetBeiZuluft ==
    (/\ Fertig
     /\ FLe(eingabe.feuchte_zuluft_soll, FromInt(100))
     /\ WrgBis1
     /\ FLe(FromInt(-51), eingabe.temp_zuluft))
        => EndetBeiZuluft

\* A dehumidification to a target of 100 % that ends with the reheat.
C15_Zeuge ==
    /\ Fertig
    /\ WrgBis1
    /\ FLe(FromInt(-51), eingabe.temp_zuluft)
    /\ LetzteArt = "Nachheizung"
    /\ eingabe.feuchte_zuluft_soll = FromInt(100)

\* C15 as stated: with a target relative humidity <= 100 % and wrg_grad in
\* [0, 1] the last entry of 'schritte' is built at temp_zuluft.
C15_Original ==
    (/\ Fertig
     /\ FLe(eingabe.feuchte_zuluft_soll, FromInt(100))
     /\ WrgBis1)
        => EndetBeiZuluft

\* C10 as stated: whatever the inputs, no value of 'leistungen' is
\* negative.
C10_Original == LeistungenNichtNegativ

\* ------------------------------------------------------------------------
\* Property of the humidity conversions
\* ------------------------------------------------------------------------

\* C9: converting a relative humidity of 0..100 % at -20..45 degC to the
\* humidity ratio and back gives the relative humidity again, within a
\* relative tolerance of 1e-6.
C9_Rundreise ==
    konv.rel_zurueck # None
        => FLe(FAbs(FSub(konv.rel_zurueck, konv.rel_feuchte)),
               FMul(Lit(1, -6), konv.rel_feuchte))

\* A conversion there and back of a humidity above 0.
C9_Zeuge ==
    /\ konv.rel_zurueck # None
    /\ FLt(Zero, konv.rel_feuchte)
    /\ FLt(Zero, konv.abs_feuchte)
\* ------------------------------------------------------------------------
\* The psychrometric functions at the edges of their domain
\* ------------------------------------------------------------------------

\* C13 (as stated): whatever the temperature and the humidity ratio, negative
\* and supersaturated ones included, rel_feuchte_aus_abs_feuchte returns a
\* value in [0, 100], and so the 'rel_feuchte' of a state that
\* berechne_luftzustand builds from a humidity ratio lies in [0, 100].
C13_Original ==
    luft # None /\ luft.abs_feuchte # None =>
        /\ luft.rel # None =>
               FLe(Zero, luft.rel) /\ FLe(luft.rel, FromInt(100))
        /\ luft.zustand # None =>
               Get(luft.zustand, "rel_feuchte") \in 0..1000

TaupunktUntergrenze == FromInt(-50)

\* C14: for a humidity ratio <= 0 taupunkt_aus_abs_feuchte returns -50 and
\* kuhltemperatur_fur_entfeuchtung returns -51 as ordinary values, and
\* berechne_luftzustand called with relative humidity 0 (or with such a
\* humidity ratio) reports 'taupunkt' -50.0.
C14_Untergrenze ==
    luft # None =>
        /\ luft.abs_feuchte # None /\ FLe(luft.abs_feuchte, Zero) =>
               /\ luft.taupunkt # None => luft.taupunkt = TaupunktUntergrenze
               /\ luft.kuehltemperatur # None =>
                      luft.kuehltemperatur = FSub(TaupunktUntergrenze, One)
               /\ luft.zustand # None =>
                      Get(luft.zustand, "taupunkt") = -500
        /\ luft.rel_feuchte = Zero /\ luft.zustand # None =>
               /\ Get(luft.zustand, "taupunkt") = -500
               /\ Get(luft.zustand, "abs_feuchte") = 0

C14_Zeuge ==
    /\ luft # None
    /\ luft.abs_feuchte # None
    /\ FLt(luft.abs_feuchte, Zero)
    /\ luft.taupunkt = TaupunktUntergrenze
    /\ luft.kuehltemperatur = FromInt(-51)
    /\ luft.zustand # None
    /\ Get(luft.zustand, "taupunkt") = -500


\* ------------------------------------------------------------------------
\* Operating hours
\* ------------------------------------------------------------------------

BetriebsstundenFertig ==
    /\ stunden_jahr # None
    /\ wochentage = <<>>
    /\ "gesamt" \in DOMAIN stunden_jahr

AktiveTage == {i \in 1..7 : betriebszeiten[Wochentage[i]].aktiv}

\* C16 (as stated): the maintenance correction only moves hours from normal
\* to off time: the returned normal + absenk + aus is
\* 24 x (52 - ferien_wochen) x (number of active days), none of the three is
\* negative, and gesamt = normal + absenk.
C16_Original ==
    BetriebsstundenFertig =>
        /\ stunden_jahr.normal + stunden_jahr.absenk + stunden_jahr.aus
               = 24 * (52 - ferien_wochen) * Cardinality(AktiveTage)
        /\ stunden_jahr.normal >= 0
        /\ stunden_jahr.absenk >= 0
        /\ stunden_jahr.aus >= 0
        /\ stunden_jahr.gesamt = stunden_jahr.normal + stunden_jahr.absenk

\* C19 (as stated): for every day the normal and setback hours of the weekly
\* profile table are the normal_stunden_tag and absenk_stunden_tag that
\* berechne_betriebsstunden adds up (none for an inactive day), and both lie
\* in 0..24.
C19_Original ==
    betriebsprofil_data # None =>
        \A i \in 1..7 :
            /\ Get(betriebsprofil_data[i], "Normal [h]") =
                   IF betriebszeiten[Wochentage[i]].aktiv
                   THEN normal_stunden_tag(betriebszeiten[Wochentage[i]]) ELSE 0
            /\ Get(betriebsprofil_data[i], "Absenk [h]") =
                   IF betriebszeiten[Wochentage[i]].aktiv
                   THEN absenk_stunden_tag(betriebszeiten[Wochentage[i]]) ELSE 0
            /\ Get(betriebsprofil_data[i], "Normal [h]") \in 0..24
            /\ Get(betriebsprofil_data[i], "Absenk [h]") \in 0..24

\* ------------------------------------------------------------------------
\* The process table
\* ------------------------------------------------------------------------

\* The cells of the column with the given header, top to bottom, as text
\* (numbers and labels are compared as they are displayed).
Spalte(df, kopf) ==
    [i \in 1..Len(df.data) |->
        ToString(df.data[i][CHOOSE j \in 1..Len(df.columns) :
                                df.columns[j] = kopf])]

\* One field of the step records, first step to last, as text.
Feld(schritte, key) ==
    [i \in 1..Len(schritte) |-> ToString(Get(schritte[i], key))]

\* C20 (as stated): every column of the process table shows the field its
\* header names: 'Prozessschritt' the step label 'punkt', 'Temperatur [°C]'
\* the 'temperatur', and so on through 'Taupunkt [°C]' the 'taupunkt'.
C20_Original ==
    df_prozess # None =>
        /\ Spalte(df_prozess, "Prozessschritt") = Feld(prozess.schritte, "punkt")
        /\ Spalte(df_prozess, "Temperatur [°C]")
               = Feld(prozess.schritte, "temperatur")
        /\ Spalte(df_prozess, "rel. Feuchte [%]")
               = Feld(prozess.schritte, "rel_feuchte")
        /\ Spalte(df_prozess, "abs. Feuchte [g/kg]")
               = Feld(prozess.schritte, "abs_feuchte")
        /\ Spalte(df_prozess, "Enthalpie [kJ/kg]")
               = Feld(prozess.schritte, "enthalpie")
        /\ Spalte(df_prozess, "Taupunkt [°C]")
               = Feld(prozess.schritte, "taupunkt")

\* ------------------------------------------------------------------------
\* Powers and annual energies
\* ------------------------------------------------------------------------

\* C17 (as stated): in the mode 'Heiz-/Kühlstunden manuell eingeben' the
\* annual energies are p_heizen_normal x heizstunden_jahr and
\* p_kuehlen_normal x kuehlstunden_jahr for every pair of entered hours, and
\* the operating-profile formula is used only in automatic mode.
C17_Original ==
    energie_heizen # None /\ eingabe_modus = Manuell =>
        /\ energie_heizen = FMul(p_heizen_normal, heizstunden_jahr)
        /\ energie_kuehlen = FMul(p_kuehlen_normal, kuehlstunden_jahr)

ProzessWieFunktion == Fertig => prozess = berechne_rlt_prozess(eingabe)

====
